---- MODULE Spec2Model ----
(***************************************************************************)
(* cskel: skeleton extraction (extractor.py) and project statistics        *)
(* (analyzer.py, cli.py analyze).                                          *)
(*                                                                         *)
(* A source file is a libcst tree.  Nodes are records with a "type" field  *)
(* named after the libcst class.  Text (identifiers, literals, comments,   *)
(* rendered code) is a sequence of strings; identifiers and integer        *)
(* literals are spelled one character per element so that str.endswith     *)
(* and int() are computed on the characters.                               *)
(***************************************************************************)
EXTENDS Integers, Sequences, FiniteSets, TLC

VARIABLES
    code,            \* extract: the parsed module handed to create_skeleton
    min_level,       \* extract: create_skeleton's min_level
    preserve_calls,  \* extract: create_skeleton's preserve_calls_as_comments
    unprintable,     \* extract: the calls for which module.code_for_node raises
    pc,              \* position of the running command
    file_level,      \* extract: SkeletonTransformer.file_level
    todo,            \* extract: functions still to leave, in post-order (paths)
    tree,            \* extract: the module with the functions left so far rewritten
    last,            \* extract: the latest leave_FunctionDef call and its result
    elided,          \* extract: paths of the functions elided in this pass
    pass,            \* extract: 1 = on the source, 2 = on the first skeleton
    first,           \* extract: the finished first pass
    files,           \* analyze: files_to_process not yet read
    pending,         \* analyze: nodes the visitor has still to visit (pre-order)
    stats,           \* analyze: AnalysisVisitor.stats of the file being visited
    seen,            \* analyze: the latest visit_FunctionDef call
    merged,          \* analyze: the per-file stats added to total_stats so far
    total_stats,     \* analyze: the running total of cli.analyze
    shown            \* analyze: the coverage displayed

vars == <<code, min_level, preserve_calls, unprintable, pc, file_level, todo,
          tree, last, elided, pass, first, files, pending, stats, seen,
          merged, total_stats, shown>>

extractVars == <<code, min_level, preserve_calls, unprintable, file_level,
                 todo, tree, last, elided, pass, first>>

analyzeVars == <<files, pending, stats, seen, merged, total_stats, shown>>

-----------------------------------------------------------------------------
(* Bounds of the model.                                                    *)

\* decimal levels written in decorators and file-level assignments: 0..MaxLevel
MaxLevel == 2
\* min_level ranges over 0..MaxMinLevel
MaxMinLevel == 2
\* decorators of one function
MaxDecorators == 2
\* statements of a function body after its first, and module-level statements
\* before the definitions
MaxLines == 2
\* files of one analyze run
MaxFiles == 2

-----------------------------------------------------------------------------
(* Text.                                                                   *)

DigitChars == <<"0", "1", "2", "3", "4", "5", "6", "7", "8", "9",
                "a", "b", "c", "d", "e", "f">>

DigitVal(c) == (CHOOSE i \in 1..Len(DigitChars) : DigitChars[i] = c) - 1

IsDigitChar(c, base) == \E i \in 1..base : DigitChars[i] = c

NoText == <<>>

S_code_level == <<"c", "o", "d", "e", "_", "l", "e", "v", "e", "l">>
S_file_level == <<"_", "_", "c", "o", "d", "e", "_", "l", "e", "v", "e", "l", "_", "_">>
S_Error == <<"E", "r", "r", "o", "r">>

\* str.endswith
EndsWith(s, suffix) ==
    /\ Len(s) >= Len(suffix)
    /\ SubSeq(s, Len(s) - Len(suffix) + 1, Len(s)) = suffix

RECURSIVE DigitsValue(_, _, _)
\* value of the digit characters of s in the given base, "_" skipped, acc so far
DigitsValue(s, base, acc) ==
    IF s = <<>> THEN acc
    ELSE IF Head(s) = "_" THEN DigitsValue(Tail(s), base, acc)
    ELSE DigitsValue(Tail(s), base, acc * base + DigitVal(Head(s)))

\* the token is a decimal integer literal (digits and "_" only)
IsDecimalToken(s) ==
    /\ s # <<>>
    /\ \A i \in 1..Len(s) : s[i] = "_" \/ IsDigitChar(s[i], 10)

\* Python's int(str): base 10; a literal with a base prefix (0x, 0o, 0b) is
\* not a base-10 numeral and raises ValueError
PyInt(s) ==
    IF IsDecimalToken(s)
    THEN [raised |-> FALSE, value |-> DigitsValue(s, 10, 0)]
    ELSE [raised |-> TRUE, value |-> 0]

Returned(v) == [raised |-> FALSE, value |-> v]
Raised == [raised |-> TRUE, value |-> 0]

-----------------------------------------------------------------------------
(* libcst nodes.                                                           *)

Name(v) == [type |-> "Name", value |-> v]
Integer(v) == [type |-> "Integer", value |-> v]
SimpleString(v) == [type |-> "SimpleString", value |-> v]
ConcatenatedString(v) == [type |-> "ConcatenatedString", value |-> v]
FormattedString(v) == [type |-> "FormattedString", value |-> v]
Attribute(v, a) == [type |-> "Attribute", value |-> v, attr |-> a]
Arg(k, v) == [type |-> "Arg", keyword |-> k, value |-> v]
Call(f, a) == [type |-> "Call", func |-> f, args |-> a]

Expr(v) == [type |-> "Expr", value |-> v]
Pass == [type |-> "Pass"]
Raise(e) == [type |-> "Raise", exc |-> e]
Assign(t, v) == [type |-> "Assign", targets |-> t, value |-> v]
AnnAssign(t, v) == [type |-> "AnnAssign", target |-> t, value |-> v]

EmptyLine(c) == [type |-> "EmptyLine", comment |-> c]
SimpleStatementLine(lead, b, trail) ==
    [type |-> "SimpleStatementLine", leading_lines |-> lead, body |-> b,
     trailing |-> trail]
IndentedBlock(h, b, f) ==
    [type |-> "IndentedBlock", header |-> h, body |-> b, footer |-> f]
SimpleStatementSuite(b, trail) ==
    [type |-> "SimpleStatementSuite", body |-> b, trailing |-> trail]
Decorator(d) == [type |-> "Decorator", decorator |-> d]
FunctionDef(lead, decos, n, b) ==
    [type |-> "FunctionDef", leading_lines |-> lead, decorators |-> decos,
     name |-> n, body |-> b]
ClassDef(lead, n, b) ==
    [type |-> "ClassDef", leading_lines |-> lead, name |-> n, body |-> b]
Module(b) == [type |-> "Module", body |-> b]

\* a statement line holding one small statement, no comments
Line(small) == SimpleStatementLine(<<>>, <<small>>, NoText)
\* a block of statements, no comments of its own
Block(b) == IndentedBlock(NoText, b, <<>>)

HasBlock(node) ==
    node.type \in {"FunctionDef", "ClassDef"} /\ node.body.type = "IndentedBlock"

RECURSIVE Concat(_)
\* the concatenation of a sequence of sequences
Concat(ss) == IF ss = <<>> THEN <<>> ELSE Head(ss) \o Concat(Tail(ss))

-----------------------------------------------------------------------------
(* Traversal: the children of a node in the order libcst visits them.      *)

CommentNode(c) == IF c = NoText THEN <<>> ELSE <<[type |-> "Comment", value |-> c]>>

Children(node) ==
    CASE node.type = "Module" -> node.body
      [] node.type = "FunctionDef" ->
            node.leading_lines \o node.decorators \o <<node.body>>
      [] node.type = "ClassDef" -> node.leading_lines \o <<node.body>>
      [] node.type = "Decorator" -> <<node.decorator>>
      [] node.type = "IndentedBlock" ->
            CommentNode(node.header) \o node.body \o node.footer
      [] node.type = "SimpleStatementSuite" ->
            node.body \o CommentNode(node.trailing)
      [] node.type = "SimpleStatementLine" ->
            node.leading_lines \o node.body \o CommentNode(node.trailing)
      [] node.type = "EmptyLine" -> CommentNode(node.comment)
      [] node.type = "Expr" -> <<node.value>>
      [] node.type = "Raise" -> <<node.exc>>
      [] node.type = "Assign" -> node.targets \o <<node.value>>
      [] node.type = "AnnAssign" -> <<node.target, node.value>>
      [] node.type = "Call" -> <<node.func>> \o node.args
      [] node.type = "Arg" -> <<node.value>>
      [] node.type = "Attribute" -> <<node.value>>
      [] OTHER -> <<>>

RECURSIVE CommentNodes(_)
\* the Comment nodes under node, in visiting order
CommentNodes(node) ==
    IF node.type = "Comment" THEN <<node>>
    ELSE LET ch == Children(node)
         IN Concat([i \in 1..Len(ch) |-> CommentNodes(ch[i])])

\* a variant that tells comments apart by their text
visit_Comment_by_text(comments, node) ==
    IF \E i \in 1..Len(comments) : comments[i] = node.value
    THEN comments ELSE Append(comments, node.value)
\* CommentCollector.visit_Comment: self.comments after the call.  The comment
\* is appended unless its id was seen; a visit reaches each node once and
\* every comment token of a parsed tree is a node of its own, so the id of
\* the node visited is never among those seen.
visit_Comment(comments, node) == Append(comments, node.value)

RECURSIVE VisitComments(_, _)
VisitComments(comments, nodes) ==
    IF nodes = <<>> THEN comments
    ELSE VisitComments(visit_Comment(comments, Head(nodes)), Tail(nodes))

\* node.visit(CommentCollector()): the comments collected, in visiting order
CommentCollector(node) == VisitComments(<<>>, CommentNodes(node))

\* a variant that visits the children of a call
visit_Call_descends(node) == TRUE
\* CallCollector.visit_Call's return value: whether the call's children are visited
visit_Call(node) == FALSE

RECURSIVE CallCollector(_)
\* node.visit(CallCollector()): the calls recorded under node, in visiting order
CallCollector(node) ==
    LET ch == Children(node)
        below == Concat([i \in 1..Len(ch) |-> CallCollector(ch[i])])
    IN IF node.type = "Call"
       THEN <<node>> \o (IF visit_Call(node) THEN below ELSE <<>>)
       ELSE below

-----------------------------------------------------------------------------
(* Source text of an expression (module.code_for_node).                    *)

RECURSIVE Render(_)
Render(e) ==
    CASE e.type = "Attribute" -> Render(e.value) \o <<".">> \o e.attr
      [] e.type = "Arg" ->
            (IF e.keyword = NoText THEN <<>> ELSE e.keyword \o <<"=">>)
            \o Render(e.value)
      [] e.type = "Call" ->
            Render(e.func) \o <<"(">>
            \o Concat([i \in 1..Len(e.args) |->
                         (IF i = 1 THEN <<>> ELSE <<", ">>) \o Render(e.args[i])])
            \o <<")">>
      [] OTHER -> e.value

\* module.code_for_node(node): the node's source text, or an exception
code_for_node(node) ==
    IF node \in unprintable THEN Raised ELSE Returned(Render(node))

-----------------------------------------------------------------------------
(* Level resolution.                                                       *)

\* the decorator is a call of the bare name code_level whose first argument
\* is an Integer node (extractor.py 35-39, analyzer.py 53-57)
IsLevelDecorator(d) ==
    /\ d.decorator.type = "Call"
    /\ d.decorator.func.type = "Name"
    /\ d.decorator.func.value = S_code_level
    /\ d.decorator.args # <<>>
    /\ d.decorator.args[1].value.type = "Integer"

\* the least element of a set of positions, 0 when there is none: the
\* position at which a for loop over the sequence returns
FirstOf(hits) ==
    IF hits = {} THEN 0 ELSE CHOOSE i \in hits : \A j \in hits : i <= j

\* SkeletonTransformer.get_code_level, self.file_level = fl
get_code_level(fl, node) ==
    LET i == FirstOf({k \in 1..Len(node.decorators) :
                         IsLevelDecorator(node.decorators[k])})
    IN IF i = 0 THEN Returned(fl)
       ELSE PyInt(node.decorators[i].decorator.args[1].value.value)

\* AnalysisVisitor._get_code_level
analyzer_get_code_level(node) ==
    LET i == FirstOf({k \in 1..Len(node.decorators) :
                         IsLevelDecorator(node.decorators[k])})
    IN IF i = 0 THEN Returned(0)
       ELSE PyInt(node.decorators[i].decorator.args[1].value.value)

\* a statement of the module body of the form  __code_level__ = <Integer>
IsFileLevelLine(node) ==
    /\ node.type = "SimpleStatementLine"
    /\ Len(node.body) = 1
    /\ node.body[1].type = "Assign"
    /\ Len(node.body[1].targets) = 1
    /\ node.body[1].targets[1].type = "Name"
    /\ node.body[1].targets[1].value = S_file_level
    /\ node.body[1].value.type = "Integer"

_get_file_level(module) ==
    LET i == FirstOf({k \in 1..Len(module.body) : IsFileLevelLine(module.body[k])})
    IN IF i = 0 THEN Returned(0)
       ELSE PyInt(module.body[i].body[1].value.value)

-----------------------------------------------------------------------------
(* SkeletonTransformer.leave_FunctionDef.                                  *)

\* a variant that also elides a function at min_level
Kept_strict(code_level) == code_level > min_level
\* line 47: the function is returned as it is
Kept(code_level) == code_level >= min_level

\* a variant that builds the skeleton from the rewritten node
BodySource_updated(original_node, updated_node) == updated_node
\* the node whose body the docstring, the calls and the comments are taken from
BodySource(original_node, updated_node) == original_node

\* the docstring statement as a sequence of 0 or 1 statements
_get_docstring_statement(node) ==
    IF node.body.body = <<>> THEN <<>>
    ELSE LET first_stmt == node.body.body[1]
         IN IF /\ first_stmt.type = "SimpleStatementLine"
               /\ Len(first_stmt.body) = 1
               /\ first_stmt.body[1].type = "Expr"
               /\ first_stmt.body[1].value.type
                    \in {"SimpleString", "ConcatenatedString"}
            THEN <<first_stmt>>
            ELSE <<>>

\* line 67: the prefix of a call's comment line
Arrow == "# → "

\* line 63: the call is left out of the summary
IsErrorCall(call_node) ==
    call_node.func.type = "Name" /\ EndsWith(call_node.func.value, S_Error)

\* lines 65-70: the comment line of one call, none when rendering raises
CallLine(call_node) ==
    LET call_str == code_for_node(call_node)
    IN IF call_str.raised THEN <<>>
       ELSE <<EmptyLine(<<Arrow>> \o call_str.value)>>

\* lines 56-70: the statements the call summary appends
CallSummary(body) ==
    LET calls == CallCollector(body)
    IN IF preserve_calls /\ calls # <<>>
       THEN <<EmptyLine(<<"# Important calls:">>)>>
            \o Concat([i \in 1..Len(calls) |->
                         IF IsErrorCall(calls[i]) THEN <<>> ELSE CallLine(calls[i])])
       ELSE <<>>

\* lines 72-78: the statements the comment block appends
CommentLines(body) ==
    LET comments == CommentCollector(body)
    IN IF comments = <<>> THEN <<>>
       ELSE (IF preserve_calls /\ CallCollector(body) # <<>>
             THEN <<EmptyLine(NoText)>> ELSE <<>>)
            \o [i \in 1..Len(comments) |-> EmptyLine(comments[i])]

\* lines 50-80
new_body_statements(node) ==
    _get_docstring_statement(node)
    \o CallSummary(node.body)
    \o CommentLines(node.body)
    \o <<Line(Pass)>>

\* the call's outcome: raised (get_code_level's int() failed), or the level,
\* whether the body was replaced, and the node returned
leave_FunctionDef(original_node, updated_node) ==
    LET code_level == get_code_level(file_level, original_node)
    IN IF code_level.raised
       THEN [raised |-> TRUE, level |-> 0, replaced |-> FALSE, value |-> updated_node]
       ELSE IF Kept(code_level.value)
       THEN [raised |-> FALSE, level |-> code_level.value, replaced |-> FALSE,
             value |-> updated_node]
       ELSE [raised |-> FALSE, level |-> code_level.value, replaced |-> TRUE,
             value |-> [updated_node EXCEPT !.body =
                          IndentedBlock(NoText,
                              new_body_statements(BodySource(original_node, updated_node)),
                              <<>>)]]

-----------------------------------------------------------------------------
(* module.visit(transformer): the functions of a tree, addressed by path.  *)
(* A path <<i, j, ...>> is statement i of the module body, statement j of  *)
(* that statement's block, ...                                             *)

RECURSIVE PostOrder(_)
\* the paths of the FunctionDef nodes under a statement list, children first
PostOrder(stmts) ==
    Concat([i \in 1..Len(stmts) |->
        (IF HasBlock(stmts[i])
         THEN LET inner == PostOrder(stmts[i].body.body)
              IN [k \in 1..Len(inner) |-> <<i>> \o inner[k]]
         ELSE <<>>)
        \o (IF stmts[i].type = "FunctionDef" THEN << <<i>> >> ELSE <<>>)])

RECURSIVE NodeAt(_, _)
NodeAt(stmts, path) ==
    IF Len(path) = 1 THEN stmts[path[1]]
    ELSE NodeAt(stmts[path[1]].body.body, Tail(path))

RECURSIVE ReplaceAt(_, _, _)
ReplaceAt(stmts, path, new) ==
    IF Len(path) = 1 THEN [stmts EXCEPT ![path[1]] = new]
    ELSE [stmts EXCEPT ![path[1]].body.body = ReplaceAt(@, Tail(path), new)]

RECURSIVE ParsePrinted(_, _)
\* cst.parse_module of the printed statements: the comment and blank lines a
\* replaced body holds between its statements are read back as the leading
\* lines of the statement that follows them
ParsePrinted(items, carried) ==
    IF items = <<>> THEN <<>>
    ELSE LET h == Head(items)
         IN IF h.type = "EmptyLine"
            THEN ParsePrinted(Tail(items), Append(carried, h))
            ELSE LET led == [h EXCEPT !.leading_lines = carried \o @]
                 IN << IF HasBlock(h)
                       THEN [led EXCEPT !.body.body = ParsePrinted(@, <<>>)]
                       ELSE led >>
                    \o ParsePrinted(Tail(items), <<>>)

-----------------------------------------------------------------------------
(* Source files the commands are run on.                                   *)

SeqsUpTo(S, n) == UNION {[1..k -> S] : k \in 0..n}

N_log == <<"l", "o", "g">>
N_get == <<"g", "e", "t">>
N_ValueError == <<"V", "a", "l", "u", "e">> \o S_Error
N_error == <<"e", "r", "r", "o", "r">>
N_m == <<"m">>
N_x == <<"x">>
N_level == <<"l", "e", "v", "e", "l">>
N_f == <<"f">>
N_g == <<"g">>
N_C == <<"C">>

\* the decimal literal of n < 10
Dec(n) == Integer(<<DigitChars[n + 1]>>)
Hex2 == Integer(<<"0", "x", "2">>)
Str == SimpleString(<<"'doc'">>)

\* log()   log(get())   get()()   ValueError('doc')   ValueError(get())
\* m.ValueError()   error()   Error()
C_log == Call(Name(N_log), <<>>)
C_get == Call(Name(N_get), <<>>)
C_log_get == Call(Name(N_log), <<Arg(NoText, C_get)>>)
C_get_get == Call(C_get, <<>>)
C_ValueError == Call(Name(N_ValueError), <<Arg(NoText, Str)>>)
C_ValueError_get == Call(Name(N_ValueError), <<Arg(NoText, C_get)>>)
C_m_ValueError == Call(Attribute(Name(N_m), N_ValueError), <<>>)
C_error == Call(Name(N_error), <<>>)
C_Error == Call(Name(S_Error), <<>>)

\* decorators:  @code_level(n)  @code_level(0x2)  @code_level(level=1)
\* @code_level  @code_level()  @code_level('doc')  @log(1)  @m.code_level(1)
LevelDecorator(n) == Decorator(Call(Name(S_code_level), <<Arg(NoText, Dec(n))>>))
Decorators ==
    {LevelDecorator(n) : n \in 0..MaxLevel}
    \cup {Decorator(Call(Name(S_code_level), <<Arg(NoText, Hex2)>>)),
          Decorator(Call(Name(S_code_level), <<Arg(N_level, Dec(1))>>)),
          Decorator(Name(S_code_level)),
          Decorator(Call(Name(S_code_level), <<>>)),
          Decorator(Call(Name(S_code_level), <<Arg(NoText, Str)>>)),
          Decorator(Call(Name(N_log), <<Arg(NoText, Dec(1))>>)),
          Decorator(Call(Attribute(Name(N_m), S_code_level), <<Arg(NoText, Dec(1))>>))}

\* module-level statements before the definitions:
\* __code_level__ = n   __code_level__ = 0x2   __code_level__ = 'doc'
\* x = 1   __code_level__ = x = 1   x = 1; __code_level__ = 1   __code_level__: x = 1
FileLevelLine(n) == Line(Assign(<<Name(S_file_level)>>, Dec(n)))
ModuleLines ==
    {FileLevelLine(n) : n \in 0..MaxLevel}
    \cup {Line(Assign(<<Name(S_file_level)>>, Hex2)),
          Line(Assign(<<Name(S_file_level)>>, Str)),
          Line(Assign(<<Name(N_x)>>, Dec(1))),
          Line(Assign(<<Name(S_file_level), Name(N_x)>>, Dec(1))),
          SimpleStatementLine(<<>>, <<Assign(<<Name(N_x)>>, Dec(1)),
                                     Assign(<<Name(S_file_level)>>, Dec(1))>>, NoText),
          Line(AnnAssign(Name(S_file_level), Dec(1)))}

\* first statements of a body that are, or look like, a docstring
DocLines ==
    {Line(Expr(Str)),
     SimpleStatementLine(<<EmptyLine(<<"# a">>)>>, <<Expr(Str)>>, <<"# b">>),
     Line(Expr(ConcatenatedString(<<"'doc'", " ", "'doc'">>))),
     Line(Expr(FormattedString(<<"f'doc'">>))),
     SimpleStatementLine(<<>>, <<Expr(Str), Pass>>, NoText)}

\* statements that follow a docstring
CommonLines ==
    {Line(Expr(C_log_get)),
     Line(Raise(C_ValueError)),
     SimpleStatementLine(<<EmptyLine(<<"# c">>), EmptyLine(NoText)>>, <<Pass>>, <<"# d">>)}

\* other statements of a body
BodyLines ==
    {Line(Expr(C_log)),
     Line(Expr(C_log_get)),
     Line(Expr(C_get_get)),
     Line(Raise(C_ValueError)),
     Line(Raise(C_ValueError_get)),
     Line(Expr(C_m_ValueError)),
     Line(Assign(<<Name(N_x)>>, Attribute(C_error, N_x))),
     Line(Raise(C_Error)),
     SimpleStatementLine(<<>>, <<Expr(C_log), Raise(C_ValueError_get)>>, NoText),
     SimpleStatementLine(<<EmptyLine(<<"# c">>), EmptyLine(NoText)>>, <<Pass>>, <<"# d">>)}


\* def f(): with a docstring and one call
PlainBody == Block(<<Line(Expr(Str)), Line(Expr(C_log))>>)

Levels == 0..MaxLevel
OptLevelDecorator == {<<>>} \cup {<<LevelDecorator(n)>> : n \in Levels}

\* files that vary the decorators of one function
DecoratedSources ==
    {Module(<<FileLevelLine(1), FunctionDef(<<>>, decos, N_f, PlainBody)>>) :
        decos \in SeqsUpTo(Decorators, MaxDecorators)}

\* files that vary the module-level statements before one function
FileLevelSources ==
    {Module(prefix \o <<FunctionDef(<<>>, <<>>, N_f, PlainBody)>>) :
        prefix \in SeqsUpTo(ModuleLines, MaxLines)}

\* function bodies: an optional docstring-like first statement, then statements
Bodies ==
    {Block(<<d>> \o rest) :
        d \in DocLines, rest \in SeqsUpTo(CommonLines, MaxLines)}
    \cup {Block(<<r>> \o rest) :
        r \in BodyLines, rest \in SeqsUpTo(BodyLines, MaxLines - 1)}
    \cup {IndentedBlock(<<"# h">>, doc \o <<r>>, <<EmptyLine(<<"# e">>)>>) :
        doc \in {<<>>} \cup {<<d>> : d \in DocLines}, r \in BodyLines}
    \cup {SimpleStatementSuite(<<Expr(Str)>>, NoText),
          SimpleStatementSuite(<<Pass>>, <<"# t">>),
          SimpleStatementSuite(<<Expr(C_log), Raise(C_ValueError)>>, NoText)}

\* files of one undecorated function that vary its body
BodySources == {Module(<<FunctionDef(<<>>, <<>>, N_f, b)>>) : b \in Bodies}

\* bodies of an inner function
InnerBodies ==
    {Block(<<Line(Expr(C_get))>>),
     Block(<<Line(Expr(Str)),
             SimpleStatementLine(<<EmptyLine(<<"# c">>)>>, <<Pass>>, NoText)>>),
     Block(<<FunctionDef(<<>>, <<>>, N_f, Block(<<Line(Raise(C_ValueError))>>))>>),
     SimpleStatementSuite(<<Expr(C_log_get)>>, NoText)}

\* def f(): with a call, an inner def g(): and a commented statement
Nesting(outer, inner, b) ==
    FunctionDef(<<>>, outer, N_f,
        Block(<<Line(Expr(C_log)),
                FunctionDef(<<EmptyLine(<<"# i">>)>>, inner, N_g, b),
                SimpleStatementLine(<<>>, <<Pass>>, <<"# d">>)>>))

\* files with a function inside a function, at module level or in a class
NestedSources ==
    {Module(<<Nesting(outer, inner, b)>>) :
        outer \in OptLevelDecorator, inner \in OptLevelDecorator, b \in InnerBodies}
    \cup {Module(<<ClassDef(<<>>, N_C, Block(<<Nesting(outer, inner, b), Line(Pass)>>)),
                   FunctionDef(<<>>, inner, N_g, PlainBody)>>) :
        outer \in OptLevelDecorator, inner \in OptLevelDecorator, b \in InnerBodies}

\* the calls for which code_for_node may raise
Fragile == {{}, {C_log}, {C_log_get}}

\* the runs of create_skeleton: code, min_level, preserve_calls_as_comments,
\* and the calls whose source text cannot be rendered
Runs ==
    [code : DecoratedSources \cup FileLevelSources, min_level : 0..MaxMinLevel,
     preserve_calls : {TRUE}, unprintable : {{}}]
    \cup [code : BodySources, min_level : {1}, preserve_calls : {TRUE},
           unprintable : Fragile]
    \cup [code : BodySources, min_level : {1}, preserve_calls : {FALSE},
           unprintable : {{}}]
    \cup [code : NestedSources, min_level : 0..MaxMinLevel, preserve_calls : BOOLEAN,
           unprintable : {{}}]

-----------------------------------------------------------------------------
(* Project statistics (analyzer.py).                                       *)

\* ProjectStats(total_files = n): the dataclass with its defaults
ProjectStats(n) ==
    [total_files |-> n, total_functions |-> 0, total_classes |-> 0,
     functions_with_level |-> 0, level_distribution |-> [level \in 0..4 |-> 0]]

\* dict.get(key, 0)
Get(dict, key) == IF key \in DOMAIN dict THEN dict[key] ELSE 0

\* dict[key] = value
Put(dict, key, value) ==
    [k \in DOMAIN dict \cup {key} |-> IF k = key THEN value ELSE dict[k]]

\* ProjectStats.level_coverage, a float, as the fraction num / den; raised is
\* ZeroDivisionError
level_coverage(self) ==
    IF self.total_functions = 0 THEN [raised |-> FALSE, num |-> 0, den |-> 1]
    ELSE [raised |-> FALSE, num |-> self.functions_with_level * 100,
          den |-> self.total_functions]

\* a variant in which a level of other replaces the count of self
new_dist_overwritten(self, other) ==
    [k \in DOMAIN self.level_distribution \cup DOMAIN other.level_distribution |->
        IF k \in DOMAIN other.level_distribution
        THEN other.level_distribution[k] ELSE self.level_distribution[k]]
\* lines 20-22: new_dist after the loop over other.level_distribution
new_dist(self, other) ==
    [k \in DOMAIN self.level_distribution \cup DOMAIN other.level_distribution |->
        Get(self.level_distribution, k) + Get(other.level_distribution, k)]

\* ProjectStats.__add__: the new object, and the operands as the call leaves them
ProjectStats__add__(self, other) ==
    [value |-> [total_files |-> self.total_files + other.total_files,
                total_functions |-> self.total_functions + other.total_functions,
                total_classes |-> self.total_classes + other.total_classes,
                functions_with_level |->
                    self.functions_with_level + other.functions_with_level,
                level_distribution |-> new_dist(self, other)],
     self |-> self,
     other |-> other]

\* AnalysisVisitor.visit_ClassDef: the stats after the call
visit_ClassDef(self_stats, node) ==
    [self_stats EXCEPT !.total_classes = @ + 1]

\* line 40: the value visit_ClassDef returns, whether the members of the
\* class are visited
visit_ClassDef_returns(node) == TRUE

\* a variant that visits the body of a counted function
visit_FunctionDef_returns_true(node) == TRUE
\* line 49: the value visit_FunctionDef returns, whether the body of the
\* function is visited
visit_FunctionDef_returns(node) == FALSE

\* a variant that counts a level of 0
HasLevel_nonnegative(level) == level >= 0
\* line 45
HasLevel(level) == level > 0

\* AnalysisVisitor.visit_FunctionDef: raised (int() failed in _get_code_level),
\* or the level found and the stats after the call
visit_FunctionDef(self_stats, node) ==
    LET level == analyzer_get_code_level(node)
    IN IF level.raised
       THEN [raised |-> TRUE, level |-> 0,
             stats |-> [self_stats EXCEPT !.total_functions = @ + 1]]
       ELSE [raised |-> FALSE, level |-> level.value,
             stats |-> [self_stats EXCEPT
                !.total_functions = @ + 1,
                !.functions_with_level = IF HasLevel(level.value) THEN @ + 1 ELSE @,
                !.level_distribution = Put(@, level.value, Get(@, level.value) + 1)]]

\* nothing displayed yet
NotShown == [raised |-> FALSE, num |-> 0, den |-> 1]

RECURSIVE Frontier(_)
\* the nodes still to visit, in pre-order, up to the next ClassDef or
\* FunctionDef: the nodes before it have no visit method and are descended into
Frontier(nodes) ==
    IF nodes = <<>> THEN <<>>
    ELSE IF Head(nodes).type \in {"ClassDef", "FunctionDef"} THEN nodes
    ELSE Frontier(Children(Head(nodes)) \o Tail(nodes))


-----------------------------------------------------------------------------
(* extract / preview: create_skeleton on one file, then on its own output. *)

Init ==
    /\ \E run \in Runs :
          /\ code = run.code
          /\ min_level = run.min_level
          /\ preserve_calls = run.preserve_calls
          /\ unprintable = run.unprintable
    /\ pc = "start"
    /\ file_level = 0
    /\ todo = <<>>
    /\ tree = code
    /\ last = <<>>
    /\ elided = {}
    /\ pass = 1
    /\ first = <<>>
    /\ files = <<>>
    /\ pending = <<>>
    /\ stats = ProjectStats(0)
    /\ seen = <<>>
    /\ merged = <<>>
    /\ total_stats = ProjectStats(0)
    /\ shown = NotShown

\* create_skeleton up to module.visit: parse, _get_file_level, the transformer
ParseModule ==
    /\ pc = "start"
    /\ LET level == _get_file_level(code)
       IN IF level.raised
          THEN /\ pc' = "raised"
               /\ UNCHANGED <<file_level, todo, tree>>
          ELSE /\ pc' = "visiting"
               /\ file_level' = level.value
               /\ todo' = PostOrder(code.body)
               /\ tree' = code
    /\ last' = <<>>
    /\ elided' = {}
    /\ UNCHANGED <<code, min_level, preserve_calls, unprintable, pass, first>>
    /\ UNCHANGED analyzeVars

\* module.visit reaches the end of the next function: leave_FunctionDef
LeaveFunctionDef ==
    /\ pc = "visiting"
    /\ todo # <<>>
    /\ LET path == Head(todo)
           original_node == NodeAt(code.body, path)
           updated_node == NodeAt(tree.body, path)
           out == leave_FunctionDef(original_node, updated_node)
       IN /\ last' = <<[path |-> path, original_node |-> original_node,
                        updated_node |-> updated_node, raised |-> out.raised,
                        level |-> out.level, replaced |-> out.replaced,
                        result |-> out.value]>>
          /\ IF out.raised
             THEN /\ pc' = "raised"
                  /\ UNCHANGED <<todo, tree, elided>>
             ELSE /\ pc' = pc
                  /\ todo' = Tail(todo)
                  /\ tree' = [tree EXCEPT !.body = ReplaceAt(@, path, out.value)]
                  /\ elided' = IF out.replaced THEN elided \cup {path} ELSE elided
    /\ UNCHANGED <<code, min_level, preserve_calls, unprintable, file_level, pass, first>>
    /\ UNCHANGED analyzeVars

\* module.visit returns: create_skeleton returns modified_tree.code
ReturnCode ==
    /\ pc = "visiting"
    /\ todo = <<>>
    /\ pc' = "done"
    /\ UNCHANGED extractVars
    /\ UNCHANGED analyzeVars

\* create_skeleton is called on the text the first call returned, with the
\* same min_level and preserve_calls
SkeletonAgain ==
    /\ pc = "done"
    /\ pass = 1
    /\ first' = <<[tree |-> tree, elided |-> elided]>>
    /\ code' = [tree EXCEPT !.body = ParsePrinted(@, <<>>)]
    /\ tree' = code'
    /\ pass' = pass + 1
    /\ pc' = "start"
    /\ last' = <<>>
    /\ elided' = {}
    /\ UNCHANGED <<min_level, preserve_calls, unprintable, file_level, todo>>
    /\ UNCHANGED analyzeVars

Next ==
    \/ ParseModule
    \/ LeaveFunctionDef
    \/ ReturnCode
    \/ SkeletonAgain

Spec == Init /\ [][Next]_vars

-----------------------------------------------------------------------------
(* analyze: analyze_file on each file, the results added to total_stats.   *)

F(decos) == FunctionDef(<<>>, decos, N_f, PlainBody)

\* the files of a project
AnalyzedSources ==
    {Module(<<Line(Pass)>>),
     Module(<<F(<<>>)>>),
     Module(<<F(<<LevelDecorator(0)>>)>>),
     Module(<<F(<<LevelDecorator(MaxLevel)>>), F(<<>>)>>),
     Module(<<F(<<LevelDecorator(1)>>), F(<<>>), F(<<>>), F(<<>>)>>),
     Module(<<F(<<Decorator(Call(Name(S_code_level), <<Arg(NoText, Dec(7))>>))>>),
              F(<<>>)>>),
     Module(<<F(<<Decorator(Call(Name(S_code_level), <<Arg(NoText, Hex2)>>))>>)>>),
     Module(<<FileLevelLine(1), F(<<>>)>>),
     Module(<<FileLevelLine(MaxLevel), F(<<LevelDecorator(1)>>)>>),
     Module(<<ClassDef(<<>>, N_C, Block(<<F(<<LevelDecorator(1)>>), F(<<>>)>>))>>),
     Module(<<Nesting(<<>>, <<LevelDecorator(1)>>, Block(<<Line(Pass)>>))>>),
     Module(<<ClassDef(<<>>, N_C,
                Block(<<ClassDef(<<>>, N_C, Block(<<Line(Pass)>>)),
                        FunctionDef(<<>>, <<LevelDecorator(1)>>, N_g,
                            Block(<<ClassDef(<<>>, N_C, Block(<<F(<<>>)>>))>>))>>))>>)}

InitAnalyze ==
    /\ files \in SeqsUpTo(AnalyzedSources, MaxFiles)
    /\ pc = "idle"
    /\ code = Module(<<>>)
    /\ pending = <<>>
    /\ stats = ProjectStats(0)
    /\ seen = <<>>
    /\ merged = <<>>
    /\ total_stats = ProjectStats(0)
    /\ shown = NotShown
    /\ min_level = 0
    /\ preserve_calls = TRUE
    /\ unprintable = {}
    /\ file_level = 0
    /\ todo = <<>>
    /\ tree = Module(<<>>)
    /\ last = <<>>
    /\ elided = {}
    /\ pass = 1
    /\ first = <<>>

unusedByAnalyze == <<min_level, preserve_calls, unprintable, file_level, todo,
                     tree, last, elided, pass, first>>

\* the loop of cli.analyze reads the next file; analyze_file parses it and
\* starts the visitor
ReadFile ==
    /\ pc = "idle"
    /\ files # <<>>
    /\ code' = Head(files)
    /\ files' = Tail(files)
    /\ stats' = ProjectStats(1)
    /\ pending' = Frontier(Children(code'))
    /\ seen' = <<>>
    /\ pc' = "analyzing"
    /\ UNCHANGED <<merged, total_stats, shown>>
    /\ UNCHANGED unusedByAnalyze

\* the visitor reaches a class: visit_ClassDef, then its children
VisitClassDef ==
    /\ pc = "analyzing"
    /\ pending # <<>>
    /\ Head(pending).type = "ClassDef"
    /\ stats' = visit_ClassDef(stats, Head(pending))
    /\ pending' = Frontier((IF visit_ClassDef_returns(Head(pending))
                             THEN Children(Head(pending)) ELSE <<>>)
                            \o Tail(pending))
    /\ UNCHANGED <<code, files, seen, merged, total_stats, pc, shown>>
    /\ UNCHANGED unusedByAnalyze

\* the visitor reaches a function: visit_FunctionDef, its children skipped.
\* An exception leaves analyze_file and is reported by the loop of cli.analyze,
\* which goes on with the next file.
VisitFunctionDef ==
    /\ pc = "analyzing"
    /\ pending # <<>>
    /\ Head(pending).type = "FunctionDef"
    /\ LET out == visit_FunctionDef(stats, Head(pending))
       IN /\ seen' = Append(seen, [node |-> Head(pending), raised |-> out.raised,
                                   level |-> out.level])
          /\ stats' = out.stats
          /\ IF out.raised
             THEN pc' = "idle" /\ pending' = <<>>
             ELSE /\ pc' = pc
                  /\ pending' = Frontier((IF visit_FunctionDef_returns(Head(pending))
                                           THEN Children(Head(pending)) ELSE <<>>)
                                          \o Tail(pending))
    /\ UNCHANGED <<code, files, merged, total_stats, shown>>
    /\ UNCHANGED unusedByAnalyze

\* analyze_file returns visitor.stats:  total_stats += stats
AddStats ==
    /\ pc = "analyzing"
    /\ pending = <<>>
    /\ LET sum == ProjectStats__add__(total_stats, stats)
       IN /\ total_stats' = sum.value
          /\ stats' = sum.other
          /\ merged' = Append(merged, [stats |-> sum.other, seen |-> seen,
                                       before |-> sum.self])
    /\ pc' = "idle"
    /\ UNCHANGED <<code, files, pending, seen, shown>>
    /\ UNCHANGED unusedByAnalyze

\* the loop has ended: the results are displayed
Report ==
    /\ pc = "idle"
    /\ files = <<>>
    /\ shown' = level_coverage(total_stats)
    /\ pc' = IF shown'.raised THEN "raised" ELSE "reported"
    /\ UNCHANGED <<code, files, pending, stats, seen, merged, total_stats>>
    /\ UNCHANGED unusedByAnalyze

NextAnalyze ==
    \/ ReadFile
    \/ VisitClassDef
    \/ VisitFunctionDef
    \/ AddStats
    \/ Report

SpecAnalyze == InitAnalyze /\ [][NextAnalyze]_vars

-----------------------------------------------------------------------------
(* Properties of create_skeleton (Spec).                                   *)

Header == EmptyLine(<<"# Important calls:">>)
Placeholder == Line(Pass)

\* the statements of a body, whichever kind of suite it is
Statements(body) == body.body

\* the body is a block of comment and blank lines closed by the placeholder,
\* with at most one other statement, at its start
IsSkeletonBody(body) ==
    /\ body.type = "IndentedBlock"
    /\ body.header = NoText /\ body.footer = <<>>
    /\ body.body # <<>>
    /\ body.body[Len(body.body)] = Placeholder
    /\ \A k \in 1..(Len(body.body) - 1) :
          \/ body.body[k].type = "EmptyLine"
          \/ k = 1 /\ body.body[k].type = "SimpleStatementLine"

\* the latest leave_FunctionDef call returned and replaced the body
Elided == last # <<>> /\ ~last[1].raised /\ last[1].replaced

\* C1: leave_FunctionDef replaces the body of a function by a skeleton body
\* exactly when the function's resolved level is below min_level; at a level
\* of min_level or more it returns the rewritten subtree as it is.
C1_ElidedIffBelowMinLevel ==
    \A i \in 1..Len(last) :
        ~last[i].raised =>
            /\ last[i].level = get_code_level(file_level, last[i].original_node).value
            /\ last[i].replaced <=> last[i].level < min_level
            /\ last[i].level >= min_level => last[i].result = last[i].updated_node
            /\ last[i].level < min_level =>
                  /\ IsSkeletonBody(last[i].result.body)
                  /\ [last[i].result EXCEPT !.body = last[i].updated_node.body]
                        = last[i].updated_node

\* a function at the level min_level is kept with a body that is no skeleton
C1_Witness ==
    /\ last # <<>> /\ ~last[1].raised
    /\ last[1].level = min_level
    /\ last[1].result = last[1].updated_node
    /\ ~IsSkeletonBody(last[1].result.body)

-----------------------------------------------------------------------------

\* the base of an integer literal, from its prefix
LiteralBase(s) ==
    IF Len(s) < 2 \/ s[1] # "0" THEN 10
    ELSE CASE s[2] = "x" -> 16 [] s[2] = "o" -> 8 [] s[2] = "b" -> 2 [] OTHER -> 10

\* the integer an integer literal denotes
LiteralValue(s) ==
    IF LiteralBase(s) = 10 THEN DigitsValue(s, 10, 0)
    ELSE DigitsValue(SubSeq(s, 3, Len(s)), LiteralBase(s), 0)

\* a call of the bare name code_level whose first positional argument is an
\* integer literal
IsMarker(d) ==
    /\ d.decorator.type = "Call"
    /\ d.decorator.func.type = "Name"
    /\ d.decorator.func.value = S_code_level
    /\ d.decorator.args # <<>>
    /\ d.decorator.args[1].keyword = NoText
    /\ d.decorator.args[1].value.type = "Integer"

\* the level the first marker among the decorators gives, else the default
MarkedLevel(node, default) ==
    LET i == FirstOf({k \in 1..Len(node.decorators) : IsMarker(node.decorators[k])})
    IN IF i = 0 THEN default
       ELSE LiteralValue(node.decorators[i].decorator.args[1].value.value)

\* the first module-level single assignment of an integer literal to
\* __code_level__, else 0
DeclaredFileLevel(module) ==
    LET i == FirstOf({k \in 1..Len(module.body) : IsFileLevelLine(module.body[k])})
    IN IF i = 0 THEN 0 ELSE LiteralValue(module.body[i].body[1].value.value)

\* C2: level resolution never fails; the file-level default is the first
\* module-level single assignment of an integer literal to __code_level__,
\* else 0; a function's level is the integer of its first decorator that calls
\* the bare name code_level with an integer literal as first positional
\* argument, else the file-level default.
C2_LevelResolution ==
    /\ pc # "raised"
    /\ pc \in {"visiting", "done"} => file_level = DeclaredFileLevel(code)
    /\ \A i \in 1..Len(last) :
          last[i].level = MarkedLevel(last[i].original_node, DeclaredFileLevel(code))

-----------------------------------------------------------------------------

RECURSIVE HasDefinition(_)
\* a FunctionDef or ClassDef node is at or under the node
HasDefinition(node) ==
    \/ node.type \in {"FunctionDef", "ClassDef"}
    \/ \E i \in 1..Len(Children(node)) : HasDefinition(Children(node)[i])

\* C3: the body that replaces an elided function is built from the function's
\* original body alone: it holds no definition, its statements are the
\* original docstring and the placeholder, and its lines are the call summary
\* and the comments of the original body, whatever happened to the functions
\* nested in it.
C3_OuterWins ==
    Elided =>
        LET c == last[1]
            b == c.result.body.body
        IN /\ ~HasDefinition(c.result.body)
           /\ \A k \in 1..Len(b) :
                 b[k].type = "SimpleStatementLine" =>
                    \/ k = Len(b) /\ b[k] = Placeholder
                    \/ k = 1 /\ b[k] = Statements(c.original_node.body)[1]
           /\ b = new_body_statements(c.original_node)

\* an elided function whose inner function had been elided before it
C3_Witness ==
    /\ Elided
    /\ HasDefinition(last[1].original_node.body)
    /\ last[1].updated_node # last[1].original_node
    /\ \E p \in elided : Len(p) > Len(last[1].path)

-----------------------------------------------------------------------------

\* C4: with preserve_calls, the header "# Important calls:" is in the
\* skeleton exactly when a collected call is left after the calls of a bare
\* name ending in "Error" are filtered out.
C4_HeaderIffCallsRemain ==
    (Elided /\ preserve_calls /\ pass = 1) =>
        LET c == last[1]
            b == c.result.body.body
            calls == CallCollector(c.original_node.body)
        IN (\E k \in 1..Len(b) : b[k] = Header)
              <=> (\E k \in 1..Len(calls) : ~IsErrorCall(calls[k]))

-----------------------------------------------------------------------------

\* the leading documentation string of a body, as a statement: the first
\* statement when it is a string literal standing alone
LeadingString(body) ==
    IF body.body = <<>> THEN <<>>
    ELSE LET s1 == body.body[1]
             small == IF body.type = "SimpleStatementSuite" THEN <<s1>>
                      ELSE IF s1.type = "SimpleStatementLine" THEN s1.body
                      ELSE <<>>
         IN IF /\ Len(small) = 1
               /\ small[1].type = "Expr"
               /\ small[1].value.type \in {"SimpleString", "ConcatenatedString"}
            THEN IF body.type = "SimpleStatementSuite" THEN <<Line(s1)>> ELSE <<s1>>
            ELSE <<>>

IsCallLine(item) ==
    item.type = "EmptyLine" /\ item.comment # NoText /\ item.comment[1] = Arrow

\* the order of a skeleton body, doc being the statement it has to start with
SkeletonOrder(c, doc) ==
    LET b == c.result.body.body
        comments == CommentCollector(c.original_node.body)
        n == Len(comments)
        d == Len(doc)
        mid == SubSeq(b, d + 1, Len(b) - 1 - n)
        calls == SubSeq(mid, 2, IF n > 0 THEN Len(mid) - 1 ELSE Len(mid))
    IN /\ Len(b) >= d + n + 1
       /\ SubSeq(b, 1, d) = doc
       /\ SubSeq(b, Len(b) - n, Len(b) - 1) = [k \in 1..n |-> EmptyLine(comments[k])]
       /\ b[Len(b)] = Placeholder
       /\ \A k \in (d + 1)..(Len(b) - 1) : b[k].type = "EmptyLine"
       /\ mid # <<>> =>
             /\ preserve_calls
             /\ mid[1] = Header
             /\ n > 0 => Len(mid) >= 2 /\ mid[Len(mid)] = EmptyLine(NoText)
             /\ \A k \in 1..Len(calls) : IsCallLine(calls[k])

\* C9: a skeleton body is, in this order: the docstring statement if the
\* original body starts with a string literal standing alone; with
\* preserve_calls, the call summary; if there are comments and a call summary
\* was written, one blank line; the collected comments, one a line; and one
\* placeholder, the only statement that is not the docstring.
C9_SkeletonOrder ==
    Elided => SkeletonOrder(last[1], LeadingString(last[1].original_node.body))

-----------------------------------------------------------------------------

RECURSIVE CallsUnder(_, _)
\* every call at or under the node, in pre-order, each with whether it lies
\* in the callee or the arguments of another call
CallsUnder(node, nested) ==
    LET ch == Children(node)
    IN (IF node.type = "Call" THEN <<[call |-> node, nested |-> nested]>> ELSE <<>>)
       \o Concat([i \in 1..Len(ch) |-> CallsUnder(ch[i], nested \/ node.type = "Call")])

\* the call lines of a skeleton body
CallLines(b) == SelectSeq(b, IsCallLine)

\* C10: the call lines of a skeleton are the source texts of the outermost
\* calls of the original body, in pre-order, without the calls of a bare name
\* ending in "Error" and without the calls whose text cannot be rendered.
C10_CallSummary ==
    (Elided /\ preserve_calls /\ pass = 1) =>
        LET all == CallsUnder(last[1].original_node.body, FALSE)
        IN CallLines(last[1].result.body.body) =
              Concat([k \in 1..Len(all) |->
                 IF \/ all[k].nested
                    \/ all[k].call.func.type = "Name"
                         /\ EndsWith(all[k].call.func.value, S_Error)
                    \/ all[k].call \in unprintable
                 THEN <<>>
                 ELSE <<EmptyLine(<<Arrow>> \o Render(all[k].call))>>])

\* log(); raise ValueError(get()) and log(get()), where log() cannot be
\* rendered: the one line is that of log(get())
C10_Witness ==
    /\ Elided /\ preserve_calls /\ pass = 1
    /\ unprintable = {C_log}
    /\ CallCollector(last[1].original_node.body) = <<C_log, C_ValueError_get, C_log_get>>
    /\ CallLines(last[1].result.body.body) = <<EmptyLine(<<Arrow>> \o Render(C_log_get))>>

-----------------------------------------------------------------------------

\* the comments of the comment lines of a skeleton body, in order
LineComments(b) ==
    Concat([k \in 1..Len(b) |->
              IF b[k].type = "EmptyLine" /\ b[k].comment # NoText
              THEN <<b[k].comment>> ELSE <<>>])

\* the docstring statement of a skeleton body, as a sequence of 0 or 1
DocOf(b) ==
    IF Len(b) >= 2 /\ b[1].type = "SimpleStatementLine" THEN <<b[1]>> ELSE <<>>

\* the comments written on the docstring statement itself
DocComments(doc) == IF doc = <<>> THEN <<>> ELSE CommentCollector(doc[1])

\* the functions elided in the first pass that its output still holds
Surviving ==
    {p \in first[1].elided :
        \A k \in 1..(Len(p) - 1) : SubSeq(p, 1, k) \notin first[1].elided}

\* the second pass elides the functions the first pass elided, and each body
\* is again a skeleton with the same docstring and the comment lines of the
\* first pass, after a further copy of the docstring statement's own
\* comments if copied
ReElision(copied) ==
    (pc = "done" /\ pass = 2) =>
        /\ elided = Surviving
        /\ \A p \in elided :
              LET b1 == NodeAt(first[1].tree.body, p).body.body
                  b2 == NodeAt(tree.body, p).body.body
              IN /\ IsSkeletonBody(NodeAt(tree.body, p).body)
                 /\ DocOf(b2) = DocOf(b1)
                 /\ LineComments(b2) =
                       (IF copied THEN DocComments(DocOf(b1)) ELSE <<>>)
                       \o LineComments(b1)

\* C8 as claimed: applying the transform to its own output elides the same
\* functions, and each body is a skeleton that ends with the placeholder and
\* carries the same docstring and the same comment lines in the same order.
C8_SameCommentLines == ReElision(FALSE)

\* C8 as amended: ... and its comment lines are the comments written on the
\* docstring statement followed by the comment lines of the first pass.
C8_ReElision == ReElision(TRUE)

\* a second pass over a skeleton whose docstring statement carries comments
\* and whose first pass wrote a call summary
C8_Witness ==
    /\ pc = "done" /\ pass = 2 /\ elided # {}
    /\ \E p \in elided :
          LET b1 == NodeAt(first[1].tree.body, p).body.body
          IN /\ DocComments(DocOf(b1)) # <<>>
             /\ \E k \in 1..Len(b1) : b1[k] = Header

-----------------------------------------------------------------------------
(* Properties of analyze (SpecAnalyze).                                    *)

\* C5: the collector tallies each function it counts at the level the
\* transformer resolves for it, the file-level default included.
C5_SameLevelAsTransformer ==
    \A i \in 1..Len(seen) :
        ~seen[i].raised =>
            seen[i].level
               = get_code_level(_get_file_level(code).value, seen[i].node).value

-----------------------------------------------------------------------------

\* the statistics at hand: the running total, the stats of the file being
\* visited and the stats of the files added
StatsAtHand == {total_stats, stats} \cup {merged[i].stats : i \in 1..Len(merged)}

RECURSIVE AddAll(_, _)
\* the stats added to a total one after the other, in the order given
AddAll(total, order) ==
    IF order = <<>> THEN total
    ELSE AddAll(ProjectStats__add__(total, merged[Head(order)].stats).value, Tail(order))

\* the orders in which the files added so far can be merged
Orders ==
    {o \in [1..Len(merged) -> 1..Len(merged)] :
        \A i, j \in 1..Len(merged) : i # j => o[i] # o[j]}

\* C6: + sums every counter and sums the histograms key by key over the
\* union of the keys, leaves its operands as they were, is commutative and
\* associative, and the running total is the same in every merge order.
C6_AddIsOrderFree ==
    /\ \A a, b \in StatsAtHand :
          LET sum == ProjectStats__add__(a, b)
          IN /\ sum.self = a /\ sum.other = b
             /\ sum.value.total_files = a.total_files + b.total_files
             /\ sum.value.total_functions = a.total_functions + b.total_functions
             /\ sum.value.total_classes = a.total_classes + b.total_classes
             /\ sum.value.functions_with_level
                   = a.functions_with_level + b.functions_with_level
             /\ DOMAIN sum.value.level_distribution
                   = DOMAIN a.level_distribution \cup DOMAIN b.level_distribution
             /\ \A k \in DOMAIN sum.value.level_distribution :
                   sum.value.level_distribution[k]
                      = Get(a.level_distribution, k) + Get(b.level_distribution, k)
             /\ sum.value = ProjectStats__add__(b, a).value
             /\ \A c \in StatsAtHand :
                   ProjectStats__add__(sum.value, c).value
                      = ProjectStats__add__(a, ProjectStats__add__(b, c).value).value
    /\ \A o \in Orders : AddAll(ProjectStats(0), o) = total_stats
    /\ \A i \in 1..Len(merged) :
          merged[i].before = AddAll(ProjectStats(0), [k \in 1..(i - 1) |-> k])

\* two files added whose histograms share a used level, one of them with a
\* level beyond the default keys
C6_Witness ==
    /\ Len(merged) = 2
    /\ merged[1].stats # merged[2].stats
    /\ \E k \in DOMAIN merged[1].stats.level_distribution :
          /\ merged[1].stats.level_distribution[k] > 0
          /\ Get(merged[2].stats.level_distribution, k) > 0
    /\ \E k \in DOMAIN total_stats.level_distribution : k > 4

-----------------------------------------------------------------------------

\* the functions counted in the files added so far
Counted ==
    Concat([i \in 1..Len(merged) |-> merged[i].seen])

\* the function has a code_level decorator that gives it a level
HasExplicitLevel(node) ==
    \E k \in 1..Len(node.decorators) : IsMarker(node.decorators[k])

\* the function has a code_level decorator that gives it a level above 0
HasPositiveLevel(node) == MarkedLevel(node, 0) > 0

\* the coverage is functions_with_level / total_functions * 100, and 0
\* without an error when there is no function
CoverageOf(total, coverage) ==
    /\ ~coverage.raised
    /\ total.total_functions = 0 => coverage.num = 0
    /\ total.total_functions # 0 =>
          coverage.num * total.total_functions
             = total.functions_with_level * 100 * coverage.den

\* C7 as claimed: functions_with_level counts the counted functions that
\* have an explicit level, and the coverage displayed is
\* functions_with_level / total_functions * 100, 0 when there is no function.
C7_CountsExplicitLevels ==
    /\ total_stats.total_functions = Len(Counted)
    /\ total_stats.functions_with_level
          = Cardinality({i \in 1..Len(Counted) : HasExplicitLevel(Counted[i].node)})
    /\ pc \in {"reported", "raised"} /\ files = <<>> => CoverageOf(total_stats, shown)

\* C7 as amended: functions_with_level counts the counted functions whose
\* code_level decorator gives a level above 0.
C7_CountsPositiveLevels ==
    /\ total_stats.total_functions = Len(Counted)
    /\ total_stats.functions_with_level
          = Cardinality({i \in 1..Len(Counted) : HasPositiveLevel(Counted[i].node)})
    /\ pc \in {"reported", "raised"} /\ files = <<>> => CoverageOf(total_stats, shown)

\* four functions, one of them with a level: 25 percent
C7_Witness ==
    /\ pc = "reported"
    /\ total_stats.total_functions = 4
    /\ total_stats.functions_with_level = 1
    /\ shown.num = 25 * shown.den

\* no function: 0 percent
C7_WitnessNone ==
    /\ pc = "reported"
    /\ total_stats.total_files > 0
    /\ total_stats.total_functions = 0
    /\ shown.num = 0

-----------------------------------------------------------------------------

RECURSIVE ReachedOf(_, _)
\* the definitions of one kind ("ClassDef" or "FunctionDef") among the nodes
\* and below them, in pre-order, that do not lie inside a function definition
ReachedOf(kind, nodes) ==
    IF nodes = <<>> THEN <<>>
    ELSE LET node == Head(nodes)
             this == IF node.type = kind THEN <<node>> ELSE <<>>
         IN IF node.type = "FunctionDef"
            THEN this \o ReachedOf(kind, Tail(nodes))
            ELSE this \o ReachedOf(kind, Children(node) \o Tail(nodes))

RECURSIVE SumOver(_, _)
\* the sum of the counts of a histogram over a set of its keys
SumOver(dist, keys) ==
    IF keys = {} THEN 0
    ELSE LET k == CHOOSE x \in keys : TRUE
         IN dist[k] + SumOver(dist, keys \ {k})

\* the sum of all histogram counts is total_functions, and
\* functions_with_level is at most total_functions
Balanced(s) ==
    /\ SumOver(s.level_distribution, DOMAIN s.level_distribution) = s.total_functions
    /\ s.functions_with_level <= s.total_functions

\* C11: while a file is visited, the classes and functions counted so far
\* together with those of the nodes still to visit are the class and function
\* definitions of the file that lie outside every function definition (the
\* members of classes included, the bodies of functions excluded); each
\* function counted is in exactly one histogram bucket, that of its level;
\* and in the stats of a file, of every file added and of the running total
\* the histogram counts sum to total_functions and functions_with_level is at
\* most total_functions.
C11_PrunedAtFunctionsOnly ==
    /\ pc = "analyzing" =>
          /\ stats.total_classes + Len(ReachedOf("ClassDef", pending))
                = Len(ReachedOf("ClassDef", Children(code)))
          /\ stats.total_functions + Len(ReachedOf("FunctionDef", pending))
                = Len(ReachedOf("FunctionDef", Children(code)))
          /\ [i \in 1..Len(seen) |-> seen[i].node]
                = SubSeq(ReachedOf("FunctionDef", Children(code)), 1, Len(seen))
          /\ \A k \in DOMAIN stats.level_distribution :
                stats.level_distribution[k]
                   = Cardinality({i \in 1..Len(seen) : seen[i].level = k})
          /\ \A i \in 1..Len(seen) : seen[i].level \in DOMAIN stats.level_distribution
          /\ Balanced(stats)
    /\ \A i \in 1..Len(merged) :
          /\ Balanced(merged[i].stats)
          /\ Balanced(merged[i].before)
          /\ merged[i].stats.total_functions = Len(merged[i].seen)
    /\ Balanced(total_stats)

\* two files added, one of them with a class in a class and a counted method
\* whose body holds a class and a function that are not counted
C11_Witness ==
    /\ Len(merged) = 2
    /\ total_stats.total_functions > 1
    /\ \E i \in 1..Len(merged) :
          /\ merged[i].stats.total_classes = 2
          /\ merged[i].stats.total_functions = 1
          /\ \E j \in 1..Len(merged[i].seen) :
                /\ ReachedOf("ClassDef", Children(merged[i].seen[j].node)) # <<>>
                /\ ReachedOf("FunctionDef",
                     Children(ReachedOf("ClassDef",
                                Children(merged[i].seen[j].node))[1])) # <<>>

====
